---- MODULE Spec2Model ----
(***************************************************************************)
(* Conversation intelligence pipeline of utils/fundraising_intelligence.py *)
(* (FundraisingIntelligenceEngine): the seven workflow nodes over one      *)
(* FundraisingState, the identity extraction, the content anonymizer and   *)
(* the oracle calls, as a state machine.                                   *)
(*                                                                         *)
(* Text is a sequence of one-character strings; a placeholder written by   *)
(* the anonymizer is one element of such a sequence (a longer string),     *)
(* since no later address replacement can match inside it (it has no "@"). *)
(***************************************************************************)
EXTENDS Integers, Sequences, FiniteSets, TLC

\* ---------------------------------------------------------------- values

\* the one element of a set: The({e : x \in {d}}) is e with the local
\* variable x assigned d, d computed once
The(S) == CHOOSE r \in S : TRUE

\* ------------------------------------------------------------------ text

LowerLetters == {"a", "b", "m", "x", "y", "c", "o"}
UpperLetters == {"A", "M"}
Letters == LowerLetters \cup UpperLetters

\* str.lower() on one character
LowerChar(c) == IF c = "A" THEN "a" ELSE IF c = "M" THEN "m" ELSE c

\* str.lower()
Lower(s) == The({[i \in 1..Len(t) |-> LowerChar(t[i])] : t \in {s}})

SetMax(S) == The({(CHOOSE m \in T : \A n \in T : n <= m) : T \in {S}})
SetMin(S) == The({(CHOOSE m \in T : \A n \in T : m <= n) : T \in {S}})

\* str.strip(): leading and trailing blanks removed
Strip(s) ==
    The({ IF inked = {} THEN <<>> ELSE SubSeq(s, SetMin(inked), SetMax(inked))
            : inked \in {{i \in 1..Len(s) : s[i] # " "}} })

\* `sub in s` on strings
Contains(sub, s) ==
    \E a \in {sub}, t \in {s} :
        \E i \in 1..(Len(t) - Len(a) + 1) : SubSeq(t, i, i + Len(a) - 1) = a

\* \w of the re module, on the model's alphabet
WordClass == Letters

IsWord(c) == c \in WordClass

\* [\w\.-] of _extract_email
ExtractClass == WordClass \cup {".", "-"}

\* first index of the maximal run of characters of a class that ends at k
RunStart(s, k, class) ==
    SetMin({i \in 1..k : \A n \in i..k : s[n] \in class})

\* last index of the maximal run of characters of a class that starts at k
RunEnd(s, k, class) ==
    SetMax({e \in k..Len(s) : \A n \in k..e : s[n] \in class})

\* end of the greedy match of [\w\.-]+\.\w+ right after the "@" at j, or 0:
\* the first part backtracks to the last "." of the run that a \w follows
ExtractDomainEnd(s, j) ==
    IF j + 1 > Len(s) \/ s[j + 1] \notin ExtractClass THEN 0
    ELSE The({ IF dots = {} THEN 0 ELSE RunEnd(s, SetMax(dots) + 1, WordClass)
                 : dots \in {{p \in (j + 2)..(RunEnd(s, j + 1, ExtractClass) - 1) :
                                 s[p] = "." /\ IsWord(s[p + 1])}} })

\* re.search(r'[\w\.-]+@[\w\.-]+\.\w+', s): the leftmost match, or <<>>
ExtractSearch(s) ==
    The({ IF ats = {} THEN <<>>
          ELSE The({ SubSeq(s, RunStart(s, at - 1, ExtractClass), ExtractDomainEnd(s, at))
                       : at \in {SetMin(ats)} })
            : ats \in {{j \in 2..Len(s) : /\ s[j] = "@"
                                          /\ s[j - 1] \in ExtractClass
                                          /\ ExtractDomainEnd(s, j) # 0}} })

_extract_email(email_field) ==
    IF email_field = <<>> THEN <<>>
    ELSE The({ IF email_match # <<>> THEN Lower(email_match)
               ELSE The({Strip(lowered) : lowered \in {Lower(email_field)}})
                 : email_match \in {ExtractSearch(email_field)} })

\* ------------------------------------------------------------ anonymizer

\* [A-Za-z0-9._%+-] of email_pattern
LocalClass == Letters \cup {".", "_", "%", "+", "-"}

\* [A-Za-z0-9.-] of email_pattern
DomainClass == Letters \cup {".", "-"}

\* [A-Z|a-z] of email_pattern (the "|" is inside the class)
TldClass == Letters \cup {"|"}

\* \b between s[k] and s[k+1] (k = 0: start of the string, k = Len(s): its end)
WordBoundary(s, k) ==
    (k >= 1 /\ IsWord(s[k])) # (k < Len(s) /\ IsWord(s[k + 1]))

\* ends of the top-level domain after the "." at p: at least two characters
\* of the class, then a word boundary
TldEnds(s, p) ==
    {e \in (p + 2)..Len(s) : /\ \A k \in (p + 1)..e : s[k] \in TldClass
                             /\ WordBoundary(s, e)}

\* the "." of the domain after the "@" at j that the match can end its
\* domain part before
DomainDots(s, j) ==
    {p \in (j + 2)..(Len(s) - 2) : /\ s[p] = "."
                                   /\ \A k \in (j + 1)..(p - 1) : s[k] \in DomainClass
                                   /\ TldEnds(s, p) # {}}

\* end of the match of email_pattern that starts at i, or 0: the domain part
\* backtracks to the last "." that at least two top-level-domain characters
\* and a word boundary follow
EmailMatchEnd(s, i) ==
    IF s[i] \notin LocalClass \/ ~WordBoundary(s, i - 1) THEN 0
    ELSE The({ IF j > Len(s) \/ s[j] # "@" THEN 0
               ELSE The({ IF dots = {} THEN 0 ELSE SetMax(TldEnds(s, SetMax(dots)))
                            : dots \in {DomainDots(s, j)} })
                 : j \in {RunEnd(s, i, LocalClass) + 1} })

\* re.findall(email_pattern, content) from position i on: the non-overlapping
\* matches, left to right
RECURSIVE FindAllEmailsFrom(_, _)
FindAllEmailsFrom(s, i) ==
    IF i > Len(s) THEN <<>>
    ELSE The({ IF end # 0
               THEN <<SubSeq(s, i, end)>> \o FindAllEmailsFrom(s, end + 1)
               ELSE FindAllEmailsFrom(s, i + 1)
                 : end \in {EmailMatchEnd(s, i)} })

FindAllEmails(content) == The({FindAllEmailsFrom(s, 1) : s \in {content}})

\* str.replace(old, new) from position i on: every non-overlapping
\* occurrence, left to right
RECURSIVE ReplaceFrom(_, _, _, _)
ReplaceFrom(s, old, new, i) ==
    IF i + Len(old) - 1 > Len(s) THEN SubSeq(s, i, Len(s))
    ELSE IF SubSeq(s, i, i + Len(old) - 1) = old
         THEN new \o ReplaceFrom(s, old, new, i + Len(old))
         ELSE <<s[i]>> \o ReplaceFrom(s, old, new, i + 1)

\* str.replace(old, new)
Replace(s, old, new) ==
    The({ReplaceFrom(t, from, to, 1) : t \in {s}, from \in {old}, to \in {new}})

\* hashlib.md5(email.encode()).hexdigest()[:6]: a content-derived digest,
\* taken to be collision-free on the addresses of the model
Md5Hex6(email) == ToString(email)

\* f"[EMAIL_{hash_suffix}]": one element of the anonymized text
Placeholder(email) == "[EMAIL_" \o Md5Hex6(email) \o "]"

\* email_map after `if email not in email_map: email_map[email] = ...`
MapEmail(email_map, email) ==
    IF email \in DOMAIN email_map THEN email_map
    ELSE [e \in DOMAIN email_map \cup {email} |->
             IF e = email THEN Placeholder(email) ELSE email_map[e]]

\* the loop `for email in emails_found` over the matches found[k..], on the
\* content and the email_map reached so far
RECURSIVE AnonymizeLoop(_, _, _, _)
AnonymizeLoop(found, k, content, email_map) ==
    IF k > Len(found) THEN [content |-> content, email_map |-> email_map]
    ELSE The({ The({ AnonymizeLoop(found, k + 1, replaced, map1)
                       : replaced \in {Replace(content, found[k], <<map1[found[k]]>>)} })
                 : map1 \in {MapEmail(email_map, found[k])} })

\* the returned content and the email_map as the call leaves it; the phone,
\* URL and signature substitutions that follow match digits, "/" and line
\* breaks only, none of which the model's alphabet holds
_anonymize_email_content(content, email_map) ==
    IF content = <<>> THEN [content |-> content, email_map |-> email_map]
    ELSE The({ AnonymizeLoop(found, 1, text, map0)
                 : found \in {FindAllEmails(content)}, text \in {content},
                   map0 \in {email_map} })

\* ---------------------------------------------------------------- inputs

\* most messages a mailbox search returns
MaxMsgs == 3

\* messages[:100] of _fetch_emails_node
FetchLimit == 100

\* the user_email argument of run_intelligence_analysis
UserEmail == <<"M", "@", "y", ".", "c", "o">>

\* the company_context argument
CompanyContext == <<"c", "o">>

\* values of the From and To headers
HdrUser      == <<"m", "@", "y", ".", "c", "o">>
HdrUserNamed == <<"M", " ", "<", "M", "@", "y", ".", "c", "o", ">">>
HdrA         == <<"a", "@", "x", ".", "c", "o">>
HdrANamed    == <<"A", " ", "<", "A", "@", "x", ".", "c", "o", ">">>
HdrB         == <<"b", "@", "x", ".", "c", "o">>
HdrNoAddress == <<" ", "A", "b">>
HdrMissing   == <<>>

\* an address that ends with another
HdrAB == <<"a">> \o HdrB

\* hours since Monday 00:00 of the Date headers that parse
EarlyT == 9
LateT == 11

\* datetime.now(), in the same unit
NowT == 50

\* Date headers: RFC 2822 dates with a zone, and text that does not parse
DateAt(t) == [kind |-> "rfc", t |-> t]
DateBad == [kind |-> "bad", t |-> 0]

\* what the mail source holds for one message id: get is what get_message
\* does ("ok": the message, "error": a dict with "error", "raise": it raises),
\* has_id is whether the returned dict has the "id" key; the messages have
\* no Cc header and an empty snippet
RawMessage(get, has_id, from, to, subject, body, date) ==
    [get |-> get, has_id |-> has_id, from |-> from, to |-> to,
     subject |-> subject, body |-> body, date |-> date]

\* the messages a mailbox can hold: outbound to a; inbound from a (other
\* case, display name, a body naming b and ab), dated later or undated;
\* outbound to b (the subject naming a); mail to oneself; a sender without
\* address; a message without From header; a message without id; two that
\* get_message fails on
RawMessages ==
    { RawMessage("ok", TRUE, HdrUser, HdrANamed, <<"o">>, <<"o">>, DateAt(EarlyT)),
      RawMessage("ok", TRUE, HdrANamed, HdrUser, <<"o">>, HdrB \o <<" ">> \o HdrAB, DateAt(LateT)),
      RawMessage("ok", TRUE, HdrANamed, HdrUser, <<"o">>, <<"o">>, DateBad),
      RawMessage("ok", TRUE, HdrUserNamed, HdrB, HdrA, <<>>, DateAt(EarlyT)),
      RawMessage("ok", TRUE, HdrUser, HdrUserNamed, <<"o">>, <<"o">>, DateAt(EarlyT)),
      RawMessage("ok", TRUE, HdrNoAddress, HdrUser, <<"o">>, <<"o">>, DateAt(LateT)),
      RawMessage("ok", TRUE, HdrMissing, HdrUser, <<"o">>, <<"o">>, DateAt(EarlyT)),
      RawMessage("ok", FALSE, HdrANamed, HdrUser, <<"o">>, <<"o">>, DateAt(EarlyT)),
      RawMessage("error", TRUE, HdrANamed, HdrUser, <<"o">>, <<"o">>, DateAt(EarlyT)),
      RawMessage("raise", TRUE, HdrANamed, HdrUser, <<"o">>, <<"o">>, DateAt(EarlyT)) }

SeqsUpTo(S, n) == UNION {[1..k -> S] : k \in 0..n}

\* the mail source: the outcome of search_emails and the messages it lists
MailSources ==
    [search : {"ok"}, messages : SeqsUpTo(RawMessages, MaxMsgs)]
    \cup [search : {"error", "raise"}, messages : {<<>>}]

\* ------------------------------------------------------------ run state

\* a dict, with its insertion order: keys in order, and the value of each
EmptyDict == [keys |-> <<>>, at |-> <<>>]

DictSet(d, k, v) ==
    [keys |-> IF k \in DOMAIN d.at THEN d.keys ELSE Append(d.keys, k),
     at   |-> [x \in DOMAIN d.at \cup {k} |-> IF x = k THEN v ELSE d.at[x]]]

Keys(d) == DOMAIN d.at

\* state.errors.append(f"{what} ... {who}")
Error(what, who) == [what |-> what, who |-> who]

AppendError(st, what, who) ==
    [st EXCEPT !.errors = Append(@, Error(what, who))]

\* FundraisingState(mailbox, user_email, company_context, time_window_days,
\* current_step="initializing") after __post_init__
FundraisingState ==
    [user_email |-> UserEmail,
     company_context |-> CompanyContext,
     raw_emails |-> <<>>,
     email_metadata |-> <<>>,
     thread_groups |-> EmptyDict,
     investor_contexts |-> EmptyDict,
     timing_patterns |-> EmptyDict,
     strategy_effectiveness |-> <<>>,
     campaign_strategies |-> <<>>,
     retrospective_report |-> "",
     current_step |-> "initializing",
     errors |-> <<>>]

\* ----------------------------------------------------------------- fetch

\* parsedate_to_datetime(date_str), with the fallback datetime.now() of the
\* bare except: a parsed date is timezone-aware, now() is naive
ParseTimestamp(date) ==
    IF date.kind = "rfc" THEN [aware |-> TRUE, t |-> date.t]
    ELSE [aware |-> FALSE, t |-> NowT]

\* EmailMetadata(...) of one raw message; message_id is email["id"]
EmailMetadata(email, user_email) ==
    [message_id |-> email.id,
     sender |-> email.from,
     recipient |-> email.to,
     timestamp |-> ParseTimestamp(email.date),
     subject |-> email.subject,
     body_content |-> email.body,
     is_outbound |-> Contains(Lower(user_email), Lower(email.from))]

\* the get_message loop over messages[k..] of messages[:100]: the raw
\* messages collected, or the exception get_message raised; a message got
\* takes its place in the list as id
RECURSIVE GetMessages(_, _, _)
GetMessages(messages, k, raw_emails) ==
    IF k > Len(messages) \/ k > FetchLimit THEN [raw_emails |-> raw_emails, exc |-> FALSE]
    ELSE IF messages[k].get = "raise" THEN [raw_emails |-> raw_emails, exc |-> TRUE]
    ELSE IF messages[k].get = "error" THEN GetMessages(messages, k + 1, raw_emails)
    ELSE The({ GetMessages(messages, k + 1, got)
                 : got \in {Append(raw_emails, messages[k] @@ [id |-> k])} })

\* the loop with the try around it instead of inside it: the first message
\* whose conversion raises ends the loop
RECURSIVE ParseEmails_abortsBatch(_, _, _, _)
ParseEmails_abortsBatch(st, raw_emails, k, email_metadata) ==
    IF k > Len(raw_emails) THEN [st EXCEPT !.email_metadata = email_metadata]
    ELSE IF ~raw_emails[k].has_id
         THEN AppendError(st, "Failed to parse email metadata", <<>>)
         ELSE The({ ParseEmails_abortsBatch(st, raw_emails, k + 1, parsed)
                      : parsed \in {Append(email_metadata,
                                           EmailMetadata(raw_emails[k], st.user_email))} })

\* the `for email in raw_emails` loop from k on, and the assignment that
\* follows it: a message whose conversion raises adds an error and is skipped
RECURSIVE ParseEmails(_, _, _, _)
ParseEmails(st, raw_emails, k, email_metadata) ==
    IF k > Len(raw_emails) THEN [st EXCEPT !.email_metadata = email_metadata]
    ELSE IF ~raw_emails[k].has_id
         THEN The({ ParseEmails(st1, raw_emails, k + 1, email_metadata)
                      : st1 \in {AppendError(st, "Failed to parse email metadata", <<>>)} })
         ELSE The({ ParseEmails(st, raw_emails, k + 1, parsed)
                      : parsed \in {Append(email_metadata,
                                           EmailMetadata(raw_emails[k], st.user_email))} })

\* Node 1 without the outer try: the exception of search_emails leaves the
\* node
_fetch_emails_node_searchUncaught(state, source) ==
    LET st1 == [state EXCEPT !.current_step = "fetching_emails"]
    IN  IF source.search = "raise"
        THEN [state |-> st1, raised |-> TRUE]
        ELSE IF source.search = "error"
        THEN [state |-> AppendError(st1, "Gmail search failed", <<>>), raised |-> FALSE]
        ELSE The({ IF got.exc
                   THEN [state |-> AppendError(st1, "Email fetching failed", <<>>),
                         raised |-> FALSE]
                   ELSE [state |-> ParseEmails([st1 EXCEPT !.raw_emails = got.raw_emails],
                                               got.raw_emails, 1, <<>>),
                         raised |-> FALSE]
                     : got \in {GetMessages(source.messages, 1, <<>>)} })

\* Node 1. The result of a node: the state it returns, and whether an
\* exception left it instead
_fetch_emails_node(state, source) ==
    LET st1 == [state EXCEPT !.current_step = "fetching_emails"]
    IN  IF source.search = "raise"
        THEN [state |-> AppendError(st1, "Email fetching failed", <<>>), raised |-> FALSE]
        ELSE IF source.search = "error"
        THEN [state |-> AppendError(st1, "Gmail search failed", <<>>), raised |-> FALSE]
        ELSE The({ IF got.exc
                   THEN [state |-> AppendError(st1, "Email fetching failed", <<>>),
                         raised |-> FALSE]
                   ELSE [state |-> ParseEmails([st1 EXCEPT !.raw_emails = got.raw_emails],
                                               got.raw_emails, 1, <<>>),
                         raised |-> FALSE]
                     : got \in {GetMessages(source.messages, 1, <<>>)} })

\* ----------------------------------------------------------------- group

\* the counterparty of one message: from the recipient when the user sent
\* it, from the sender otherwise
InvestorEmailOf(email, user_email) ==
    IF Contains(Lower(user_email), Lower(email.sender))
    THEN _extract_email(email.recipient)
    ELSE _extract_email(email.sender)

\* the comparison without .lower() on the user's address
IsCounterparty_caseSensitive(investor_email, user_email) ==
    investor_email # <<>> /\ investor_email # user_email

\* `if investor_email and investor_email != state.user_email.lower()`
IsCounterparty(investor_email, user_email) ==
    investor_email # <<>> /\ investor_email # Lower(user_email)

\* thread_groups after `thread_groups[investor_email].append(email)`
GroupAppend(thread_groups, investor_email, email) ==
    IF investor_email \in Keys(thread_groups)
    THEN DictSet(thread_groups, investor_email,
                 Append(thread_groups.at[investor_email], email))
    ELSE DictSet(thread_groups, investor_email, <<email>>)

\* the grouping loop over email_metadata[k..]
RECURSIVE GroupEmails(_, _, _, _)
GroupEmails(email_metadata, user_email, k, thread_groups) ==
    IF k > Len(email_metadata) THEN thread_groups
    ELSE The({ IF IsCounterparty(investor_email, user_email)
               THEN The({ GroupEmails(email_metadata, user_email, k + 1, grouped)
                            : grouped \in {GroupAppend(thread_groups, investor_email,
                                                       email_metadata[k])} })
               ELSE GroupEmails(email_metadata, user_email, k + 1, thread_groups)
                 : investor_email \in {InvestorEmailOf(email_metadata[k], user_email)} })

\* list.sort(key=lambda x: x.timestamp) compares an aware with a naive
\* datetime, and raises TypeError, exactly when the list holds both
SortRaises(emails) ==
    \E i, j \in 1..Len(emails) : emails[i].timestamp.aware # emails[j].timestamp.aware

\* e put into the sorted list after every element that is not later
RECURSIVE InsertByTimestamp(_, _)
InsertByTimestamp(sorted, e) ==
    IF sorted = <<>> THEN <<e>>
    ELSE IF sorted[Len(sorted)].timestamp.t <= e.timestamp.t THEN Append(sorted, e)
    ELSE Append(InsertByTimestamp(SubSeq(sorted, 1, Len(sorted) - 1), e),
                sorted[Len(sorted)])

\* the list left in mailbox order
SortByTimestamp_unsorted(emails) == emails

\* the stable sort by timestamp of a list the sort does not raise on
RECURSIVE SortByTimestamp(_)
SortByTimestamp(emails) ==
    IF emails = <<>> THEN <<>>
    ELSE The({ InsertByTimestamp(sorted, emails[Len(emails)])
                 : sorted \in {SortByTimestamp(SubSeq(emails, 1, Len(emails) - 1))} })

\* the sort of every group
SortGroups(thread_groups) ==
    [thread_groups EXCEPT
        !.at = [k \in Keys(thread_groups) |-> SortByTimestamp(thread_groups.at[k])]]

\* Node 2 without its `except Exception`: the TypeError of the sort leaves it
_group_threads_node_uncaught(state) ==
    LET st1 == [state EXCEPT !.current_step = "grouping_threads"]
    IN  The({ IF \E k \in Keys(thread_groups) : SortRaises(thread_groups.at[k])
              THEN [state |-> st1, raised |-> TRUE]
              ELSE [state |-> [st1 EXCEPT !.thread_groups = SortGroups(thread_groups)],
                    raised |-> FALSE]
                : thread_groups \in {GroupEmails(st1.email_metadata, st1.user_email,
                                                 1, EmptyDict)} })

\* Node 2
_group_threads_node(state) ==
    LET st1 == [state EXCEPT !.current_step = "grouping_threads"]
    IN  The({ IF \E k \in Keys(thread_groups) : SortRaises(thread_groups.at[k])
              THEN [state |-> AppendError(st1, "Thread grouping failed", <<>>),
                    raised |-> FALSE]
              ELSE [state |-> [st1 EXCEPT !.thread_groups = SortGroups(thread_groups)],
                    raised |-> FALSE]
                : thread_groups \in {GroupEmails(st1.email_metadata, st1.user_email,
                                                 1, EmptyDict)} })

\* --------------------------------------------------------------- oracle

\* None
None == [none |-> TRUE]

\* dict.get(key, default)
Get(dict, key, default) == IF key \in DOMAIN dict THEN dict[key] ELSE default

\* what one chat.completions.create call does: it raises (timeout, transport
\* error), or returns text without a {...}, text whose {...} json.loads
\* rejects, or text holding the JSON object obj
OracleRaises == [kind |-> "raise", obj |-> <<>>]
OracleNoJson == [kind |-> "nojson", obj |-> <<>>]
OracleBadJson == [kind |-> "badjson", obj |-> <<>>]
OracleJson(obj) == [kind |-> "json", obj |-> obj]

OracleFailed(response) == response.kind # "json"

\* answers to the conversation analysis prompt: the failures, and an object
\* that leaves some fields out
AnalysisResponses ==
    { OracleRaises, OracleNoJson, OracleBadJson,
      OracleJson([name |-> "Al", relationship_stage |-> "engaged",
                  sentiment_trend |-> "positive", key_interests |-> <<"ai">>,
                  objections_raised |-> <<"price">>, questions_asked |-> <<"burn">>,
                  materials_shared |-> <<"deck">>, conversation_summary |-> "s"]) }

\* one call of the oracle, as the run made it: the prompt's variable parts
\* and the answer
OracleCall(kind, who, prompt, response) ==
    [kind |-> kind, who |-> who, prompt |-> prompt, response |-> response]

\* ------------------------------------------------------------- analysis

\* "(No content available)"
NoContent == <<"(No content available)">>

\* `user_email.lower() in email.sender.lower()`
FromUser(email, user_email) == Contains(Lower(user_email), Lower(email.sender))

\* one entry of conversation_parts
ConversationPart(email, user_email, from, to, subject, content) ==
    [sender_type |-> IF FromUser(email, user_email) THEN "YOU" ELSE "INVESTOR",
     timestamp |-> email.timestamp,
     from |-> from,
     to |-> to,
     subject |-> subject,
     content |-> content]

\* the content of one email, after the headers: the anonymized body (the
\* snippet that would stand in for an empty body is empty too) and the
\* email_map it leaves
ContentPart(email, email_map) ==
    IF email.body_content # <<>>
    THEN _anonymize_email_content(email.body_content, email_map)
    ELSE [content |-> NoContent, email_map |-> email_map]

\* the body of the loop of _build_conversation_text: the entry of one email,
\* the headers and the content anonymized one after the other under the
\* email_map of the call, and the email_map they leave
BuildPart(email, user_email, email_map) ==
    The({ The({ The({ The({
        [part |-> ConversationPart(email, user_email, sender_anon.content,
                                   recipient_anon.content, subject_anon.content,
                                   anonymized.content),
         email_map |-> anonymized.email_map]
        : anonymized \in {ContentPart(email, subject_anon.email_map)} })
        : subject_anon \in {_anonymize_email_content(email.subject, recipient_anon.email_map)} })
        : recipient_anon \in {_anonymize_email_content(email.recipient, sender_anon.email_map)} })
        : sender_anon \in {_anonymize_email_content(email.sender, email_map)} })

\* the loop of _build_conversation_text over emails[k..]
RECURSIVE BuildParts(_, _, _, _, _)
BuildParts(emails, user_email, k, conversation_parts, email_map) ==
    IF k > Len(emails) THEN conversation_parts
    ELSE The({ BuildParts(emails, user_email, k + 1,
                          Append(conversation_parts, built.part), built.email_map)
                 : built \in {BuildPart(emails[k], user_email, email_map)} })

_build_conversation_text(emails, user_email) ==
    BuildParts(emails, user_email, 1, <<>>, <<>>)

\* every pair (i, i+1) that ends with an investor's email taken for a
\* response, whoever sent the first
IsResponse_anySender(sorted_emails, user_email, i) ==
    /\ ~FromUser(sorted_emails[i + 1], user_email)
    /\ sorted_emails[i].timestamp.aware = sorted_emails[i + 1].timestamp.aware

\* whether the pair (i, i+1) of the sorted list is the user's email followed
\* by the investor's
IsResponse(sorted_emails, user_email, i) ==
    /\ FromUser(sorted_emails[i], user_email)
    /\ ~FromUser(sorted_emails[i + 1], user_email)
    /\ sorted_emails[i].timestamp.aware = sorted_emails[i + 1].timestamp.aware

\* the hours between the two emails of every such pair, in list order
RECURSIVE ResponseTimesFrom(_, _, _)
ResponseTimesFrom(sorted_emails, user_email, i) ==
    IF i >= Len(sorted_emails) THEN <<>>
    ELSE IF IsResponse(sorted_emails, user_email, i)
         THEN <<sorted_emails[i + 1].timestamp.t - sorted_emails[i].timestamp.t>>
                  \o ResponseTimesFrom(sorted_emails, user_email, i + 1)
         ELSE ResponseTimesFrom(sorted_emails, user_email, i + 1)

\* the second definition of the class, the one in force; sorted() raises on
\* a list SortRaises holds of, which the callers guard
_calculate_response_times(emails, user_email) ==
    The({ ResponseTimesFrom(sorted_emails, user_email, 1)
            : sorted_emails \in {SortByTimestamp(emails)} })

RECURSIVE SeqSum(_)
SeqSum(seq) == IF seq = <<>> THEN 0 ELSE Head(seq) + SeqSum(Tail(seq))

\* sum(xs) / len(xs) as the fraction num/den
Mean(xs) == [num |-> SeqSum(xs), den |-> Len(xs)]

\* a failed call answered with a made-up stage instead of {}
_analyze_investor_conversation_fabricated(conversation_text, investor_email, company_context, response) ==
    [analysis |-> IF response.kind = "json" THEN response.obj
                  ELSE [relationship_stage |-> "cold"],
     calls |-> <<OracleCall("analysis", investor_email,
                            [company_context |-> company_context,
                             investor_email |-> investor_email,
                             conversation_text |-> conversation_text],
                            response)>>]

\* the prompt is built, the oracle called and its text parsed; every
\* exception ends in `return {}`
_analyze_investor_conversation(conversation_text, investor_email, company_context, response) ==
    [analysis |-> IF response.kind = "json" THEN response.obj ELSE <<>>,
     calls |-> <<OracleCall("analysis", investor_email,
                            [company_context |-> company_context,
                             investor_email |-> investor_email,
                             conversation_text |-> conversation_text],
                            response)>>]

\* sum(1 for e in emails if ...): the emails the user sent, and the others
SentCount(emails, user_email) ==
    Cardinality({i \in 1..Len(emails) : FromUser(emails[i], user_email)})

\* the replies counted as the emails that answer one the user sent
ReplyCount_answersOnly(emails, user_email) ==
    Cardinality({i \in 2..Len(emails) :
                    FromUser(emails[i - 1], user_email) /\ ~FromUser(emails[i], user_email)})

ReplyCount(emails, user_email) ==
    Cardinality({i \in 1..Len(emails) : ~FromUser(emails[i], user_email)})

\* InvestorContext(...) as _analyze_conversations_node fills it
InvestorContext(investor_email, emails, user_email, analysis) ==
    The({
        [email |-> investor_email,
         name |-> Get(analysis, "name", ""),
         firm |-> Get(analysis, "firm", ""),
         last_contact_date |-> IF emails # <<>> THEN emails[Len(emails)].timestamp ELSE None,
         relationship_stage |-> Get(analysis, "relationship_stage", "unknown"),
         sentiment_trend |-> Get(analysis, "sentiment_trend", "neutral"),
         response_time_avg |-> IF response_times # <<>> THEN Mean(response_times) ELSE None,
         key_interests |-> Get(analysis, "key_interests", <<>>),
         objections_raised |-> Get(analysis, "objections_raised", <<>>),
         questions_asked |-> Get(analysis, "questions_asked", <<>>),
         materials_shared |-> Get(analysis, "materials_shared", <<>>),
         next_action_suggested |-> Get(analysis, "next_action_suggested", ""),
         defer_until |-> None,
         total_emails_sent |-> SentCount(emails, user_email),
         total_replies_received |-> ReplyCount(emails, user_email),
         last_reply_sentiment |-> Get(analysis, "last_reply_sentiment", "neutral"),
         conversation_summary |-> Get(analysis, "conversation_summary", "")]
        : response_times \in {_calculate_response_times(emails, user_email)} })

\* the body of the loop of _analyze_conversations_node for one investor;
\* response is what the oracle does when asked about it
AnalyzeInvestor(acc, investor_email, emails, response) ==
    The({ IF SortRaises(emails)
          THEN [acc EXCEPT
                   !.state = AppendError(@, "Failed to analyze conversation with",
                                         investor_email),
                   !.calls = @ \o asked.calls]
          ELSE [acc EXCEPT
                   !.investor_contexts = DictSet(@, investor_email,
                       InvestorContext(investor_email, emails, acc.state.user_email,
                                       asked.analysis)),
                   !.calls = @ \o asked.calls]
            : asked \in {_analyze_investor_conversation(
                             _build_conversation_text(emails, acc.state.user_email),
                             investor_email, acc.state.company_context, response)} })

\* the loop of _analyze_conversations_node over the k-th key on, in the
\* dict's order; responses[key] is what the oracle does when asked about key
RECURSIVE AnalyzeLoop(_, _, _, _)
AnalyzeLoop(acc, thread_groups, k, responses) ==
    IF k > Len(thread_groups.keys) THEN acc
    ELSE The({ AnalyzeLoop(next, thread_groups, k + 1, responses)
                 : next \in {AnalyzeInvestor(acc, thread_groups.keys[k],
                                             thread_groups.at[thread_groups.keys[k]],
                                             responses[thread_groups.keys[k]])} })

\* the accumulators of the loop before its first pass
AnalyzeStart(st) == [state |-> st, investor_contexts |-> EmptyDict, calls |-> <<>>]

\* Node 3 with the try around the whole loop only: the first failed call
\* ends the node, no context is stored
_analyze_conversations_node_abortsBatch(state, responses) ==
    LET st1 == [state EXCEPT !.current_step = "analyzing_conversations"]
    IN  The({ IF \E k \in Keys(st1.thread_groups) : OracleFailed(responses[k])
              THEN [state |-> AppendError(st1, "Conversation analysis failed", <<>>),
                    raised |-> FALSE,
                    calls |-> done.calls]
              ELSE [state |-> [done.state EXCEPT !.investor_contexts = done.investor_contexts],
                    raised |-> FALSE,
                    calls |-> done.calls]
                : done \in {AnalyzeLoop(AnalyzeStart(st1), st1.thread_groups, 1, responses)} })

\* Node 3; calls are the oracle calls the node made, in order
_analyze_conversations_node(state, responses) ==
    LET st1 == [state EXCEPT !.current_step = "analyzing_conversations"]
    IN  The({ [state |-> [done.state EXCEPT !.investor_contexts = done.investor_contexts],
               raised |-> FALSE,
               calls |-> done.calls]
                : done \in {AnalyzeLoop(AnalyzeStart(st1), st1.thread_groups, 1, responses)} })

\* --------------------------------------------------------------- timing

\* timestamp.hour and timestamp.strftime("%A").lower()
HourOf(timestamp) == timestamp.t % 24

Weekdays == <<"monday", "tuesday", "wednesday", "thursday", "friday", "saturday", "sunday">>

DayOf(timestamp) == Weekdays[((timestamp.t \div 24) % 7) + 1]

\* reply_times.count(v)
Count(seq, v) == Cardinality({i \in 1..Len(seq) : seq[i] = v})

Range(seq) == {seq[i] : i \in 1..Len(seq)}

\* the values max(set(xs), key=xs.count) can return: those of highest count;
\* which of them it returns is the first in the set's iteration order
Modes(xs) == {v \in Range(xs) : \A w \in Range(xs) : Count(xs, w) <= Count(xs, v)}

\* iteration order of a set of small ints: by slot of the 8-entry hash table
\* (the hash of an int is the int), for sets of at most four hours in distinct
\* slots
FirstHourInSetOrder(hours) ==
    CHOOSE h \in hours : \A g \in hours : (h % 8 < g % 8) \/ (h % 8 = g % 8 /\ h <= g)

\* the emails the investor sent, in list order
RECURSIVE Replies(_, _)
Replies(emails, user_email) ==
    IF emails = <<>> THEN <<>>
    ELSE IF FromUser(Head(emails), user_email)
         THEN Replies(Tail(emails), user_email)
         ELSE <<Head(emails)>> \o Replies(Tail(emails), user_email)

\* reply_times and reply_days of the emails of one investor
ReplyTimes(emails, user_email) ==
    The({ [i \in 1..Len(replies) |-> HourOf(replies[i].timestamp)]
            : replies \in {Replies(emails, user_email)} })

ReplyDays(emails, user_email) ==
    The({ [i \in 1..Len(replies) |-> DayOf(replies[i].timestamp)]
            : replies \in {Replies(emails, user_email)} })

\* the entry of timing_patterns for one investor; day_pick is the weekday
\* the set of str, ordered by the randomized str hash, yields first among
\* those of highest count
TimingPattern(emails, user_email, day_pick) ==
    The({
        [preferred_hour |-> IF reply_times # <<>>
                            THEN The({FirstHourInSetOrder(hours) : hours \in {Modes(reply_times)}})
                            ELSE 10,
         preferred_day |-> IF reply_days # <<>> THEN day_pick ELSE "tuesday",
         avg_response_hours |-> IF response_times # <<>> THEN Mean(response_times)
                                ELSE [num |-> 24, den |-> 1],
         total_replies |-> Len(reply_times),
         response_rate |-> IF emails # <<>>
                           THEN [num |-> Len(reply_times), den |-> Len(emails)]
                           ELSE [num |-> 0, den |-> 1]]
        : reply_times \in {ReplyTimes(emails, user_email)},
          reply_days \in {ReplyDays(emails, user_email)},
          response_times \in {_calculate_response_times(emails, user_email)} })

\* the weekdays day_pick can be for the emails of one investor
DayPicks(emails, user_email) ==
    The({ IF reply_days = <<>> THEN {"tuesday"} ELSE Modes(reply_days)
            : reply_days \in {ReplyDays(emails, user_email)} })

\* the rate divided without the `if emails` guard: ZeroDivisionError on an
\* empty group, caught as any other exception
TimingOfInvestor_unguarded(acc, investor_email, emails, day_pick) ==
    IF SortRaises(emails) \/ emails = <<>>
    THEN [acc EXCEPT
             !.state = AppendError(@, "Failed to analyze timing for", investor_email)]
    ELSE [acc EXCEPT
             !.timing_patterns = DictSet(@, investor_email,
                 TimingPattern(emails, acc.state.user_email, day_pick))]

\* the body of the loop of _extract_timing_patterns_node for one investor
TimingOfInvestor(acc, investor_email, emails, day_pick) ==
    IF SortRaises(emails)
    THEN [acc EXCEPT
             !.state = AppendError(@, "Failed to analyze timing for", investor_email)]
    ELSE [acc EXCEPT
             !.timing_patterns = DictSet(@, investor_email,
                 TimingPattern(emails, acc.state.user_email, day_pick))]

\* the loop of _extract_timing_patterns_node over the k-th key on
RECURSIVE TimingLoop(_, _, _, _)
TimingLoop(acc, thread_groups, k, day_picks) ==
    IF k > Len(thread_groups.keys) THEN acc
    ELSE The({ TimingLoop(next, thread_groups, k + 1, day_picks)
                 : next \in {TimingOfInvestor(acc, thread_groups.keys[k],
                                              thread_groups.at[thread_groups.keys[k]],
                                              day_picks[thread_groups.keys[k]])} })

\* Node 4
_extract_timing_patterns_node(state, day_picks) ==
    LET st1 == [state EXCEPT !.current_step = "extracting_timing_patterns"]
    IN  The({ [state |-> [done.state EXCEPT !.timing_patterns = done.timing_patterns],
               raised |-> FALSE]
                : done \in {TimingLoop([state |-> st1, timing_patterns |-> EmptyDict],
                                       st1.thread_groups, 1, day_picks)} })

\* -------------------------------------------------------- effectiveness

\* the values of a dict, in its order
Values(d) == [i \in 1..Len(d.keys) |-> d.at[d.keys[i]]]

\* the metrics with every conversation counted as active
Effectiveness_allActive(contexts) ==
    LET total_sent == SeqSum([i \in 1..Len(contexts) |-> contexts[i].total_emails_sent])
        total_replies == SeqSum([i \in 1..Len(contexts) |-> contexts[i].total_replies_received])
        positive == {i \in 1..Len(contexts) : contexts[i].sentiment_trend = "positive"}
    IN  [overall_reply_rate |-> IF total_sent > 0
                                THEN [num |-> total_replies, den |-> total_sent]
                                ELSE [num |-> 0, den |-> 1],
         total_conversations |-> Len(contexts),
         active_conversations |-> Len(contexts),
         positive_sentiment_rate |-> IF contexts # <<>>
                                     THEN [num |-> Cardinality(positive),
                                           den |-> Len(contexts)]
                                     ELSE [num |-> 0, den |-> 1]]

\* metrics of Node 5 over the contexts; a rate is the fraction num/den
Effectiveness(contexts) ==
    LET total_sent == SeqSum([i \in 1..Len(contexts) |-> contexts[i].total_emails_sent])
        total_replies == SeqSum([i \in 1..Len(contexts) |-> contexts[i].total_replies_received])
        active == {i \in 1..Len(contexts) :
                      contexts[i].relationship_stage \in {"warm", "engaged", "interested"}}
        positive == {i \in 1..Len(contexts) : contexts[i].sentiment_trend = "positive"}
    IN  [overall_reply_rate |-> IF total_sent > 0
                                THEN [num |-> total_replies, den |-> total_sent]
                                ELSE [num |-> 0, den |-> 1],
         total_conversations |-> Len(contexts),
         active_conversations |-> Cardinality(active),
         positive_sentiment_rate |-> IF contexts # <<>>
                                     THEN [num |-> Cardinality(positive),
                                           den |-> Len(contexts)]
                                     ELSE [num |-> 0, den |-> 1]]

\* Node 5
_analyze_strategy_effectiveness_node(state) ==
    LET st1 == [state EXCEPT !.current_step = "analyzing_strategy_effectiveness"]
    IN  The({ [state |-> [st1 EXCEPT !.strategy_effectiveness = Effectiveness(contexts)],
               raised |-> FALSE]
                : contexts \in {Values(st1.investor_contexts)} })

\* ------------------------------------------------------------ strategies

_determine_strategy_type(context) ==
    IF context.relationship_stage = "deferred" /\ context.defer_until # None
    THEN "follow_up"
    ELSE IF context.relationship_stage \in {"cold", "unknown"} THEN "cold_outreach"
    ELSE IF context.relationship_stage = "declined" THEN "re_engagement"
    ELSE IF context.total_replies_received = 0 /\ context.total_emails_sent > 0
    THEN "re_engagement"
    ELSE IF context.relationship_stage \in {"warm", "engaged", "interested"}
    THEN "milestone_update"
    ELSE "follow_up"

\* answers to the strategy prompt: the failures, and an object that leaves
\* some fields out
StrategyResponses ==
    { OracleRaises, OracleNoJson, OracleBadJson,
      OracleJson([email_draft |-> "draft", reasoning |-> "r",
                  expected_response_rate |-> [num |-> 1, den |-> 2],
                  channel_sequence |-> <<"email", "linkedin">>,
                  optimal_timing |-> "within_week"]) }

\* timing_map, in hours
timing_map ==
    [immediate |-> 0, within_6h |-> 6, within_24h |-> 24, within_week |-> 168]

\* the CampaignStrategy built from the parsed object; recommended_timing is
\* the value of the last assignment, datetime.now() + timedelta(days=timing_days)
CampaignStrategy(context, strategy_type, result) ==
    [investor_email |-> context.email,
     strategy_type |-> strategy_type,
     recommended_timing |-> NowT + Get(timing_map, Get(result, "optimal_timing", "within_24h"), 24),
     email_draft |-> Get(result, "email_draft", ""),
     linkedin_message |-> Get(result, "linkedin_message", ""),
     reasoning |-> Get(result, "reasoning", ""),
     confidence_score |-> [num |-> Get(result, "personalization_score", 8), den |-> 10],
     channel_sequence |-> Get(result, "channel_sequence", <<"email">>),
     expected_response_rate |-> Get(result, "expected_response_rate", [num |-> 3, den |-> 10])]

\* formatting the prompt raises TypeError on {context.response_time_avg:.1f}
\* when the average is None, before the oracle is called; that and every
\* other exception end in `return None`, as does text without a {...}
_generate_investor_strategy(context, company_context, response) ==
    IF context.response_time_avg = None
    THEN [strategy |-> None, calls |-> <<>>]
    ELSE [strategy |-> IF response.kind = "json"
                       THEN CampaignStrategy(context, _determine_strategy_type(context),
                                             response.obj)
                       ELSE None,
          calls |-> <<OracleCall("strategy", context.email,
                                 [company_context |-> company_context,
                                  email |-> context.email,
                                  name |-> context.name,
                                  firm |-> context.firm,
                                  conversation_summary |-> context.conversation_summary],
                                 response)>>]

\* the body of the loop appending the strategy it made a second time
StrategyOfInvestor_appendsTwice(acc, context, company_context, response) ==
    The({ [campaign_strategies |->
               IF made.strategy # None
               THEN Append(Append(acc.campaign_strategies, made.strategy), made.strategy)
               ELSE acc.campaign_strategies,
           calls |-> acc.calls \o made.calls]
            : made \in {_generate_investor_strategy(context, company_context, response)} })

\* the body of the loop of _generate_campaign_strategies_node for one
\* investor
StrategyOfInvestor(acc, context, company_context, response) ==
    The({ [campaign_strategies |->
               IF made.strategy # None
               THEN Append(acc.campaign_strategies, made.strategy)
               ELSE acc.campaign_strategies,
           calls |-> acc.calls \o made.calls]
            : made \in {_generate_investor_strategy(context, company_context, response)} })

\* the loop of _generate_campaign_strategies_node over the k-th key on
RECURSIVE StrategyLoop(_, _, _, _, _)
StrategyLoop(acc, investor_contexts, company_context, k, responses) ==
    IF k > Len(investor_contexts.keys) THEN acc
    ELSE The({ StrategyLoop(next, investor_contexts, company_context, k + 1, responses)
                 : next \in {StrategyOfInvestor(acc,
                                 investor_contexts.at[investor_contexts.keys[k]],
                                 company_context, responses[investor_contexts.keys[k]])} })

\* Node 6 clearing the contexts it has used up
_generate_campaign_strategies_node_dropsContexts(state, responses) ==
    LET st1 == [state EXCEPT !.current_step = "generating_campaign_strategies"]
    IN  The({ [state |-> [st1 EXCEPT !.campaign_strategies = done.campaign_strategies,
                                     !.investor_contexts = EmptyDict],
               raised |-> FALSE,
               calls |-> done.calls]
                : done \in {StrategyLoop([campaign_strategies |-> <<>>, calls |-> <<>>],
                                         st1.investor_contexts, st1.company_context,
                                         1, responses)} })

\* Node 6
_generate_campaign_strategies_node(state, responses) ==
    LET st1 == [state EXCEPT !.current_step = "generating_campaign_strategies"]
    IN  The({ [state |-> [st1 EXCEPT !.campaign_strategies = done.campaign_strategies],
               raised |-> FALSE,
               calls |-> done.calls]
                : done \in {StrategyLoop([campaign_strategies |-> <<>>, calls |-> <<>>],
                                         st1.investor_contexts, st1.company_context,
                                         1, responses)} })

\* --------------------------------------------------------- retrospective

\* answers to a report prompt: the call raises, or returns the report text
ReportResponses == {OracleRaises, [kind |-> "text", obj |-> <<>>]}

_generate_single_investor_report(state, response) ==
    LET investor_email == state.investor_contexts.keys[1]
    IN  [report |-> IF response.kind = "raise"
                    THEN "INVESTOR RELATIONSHIP REPORT: Error generating report"
                    ELSE "single investor report",
         calls |-> <<OracleCall("report_single", investor_email,
                                [company_context |-> state.company_context,
                                 email |-> investor_email],
                                response)>>]

\* the report without the single-investor branch
_generate_comprehensive_report_portfolioOnly(state, response) ==
    [report |-> IF response.kind = "raise"
                THEN "# Fundraising Retrospective Report: Error generating report"
                ELSE "portfolio report",
     calls |-> <<OracleCall("report_portfolio", <<>>,
                            [company_context |-> state.company_context,
                             investors |-> state.investor_contexts.keys],
                            response)>>]

_generate_comprehensive_report(state, response) ==
    IF Len(state.investor_contexts.keys) = 1
    THEN _generate_single_investor_report(state, response)
    ELSE [report |-> IF response.kind = "raise"
                     THEN "# Fundraising Retrospective Report: Error generating report"
                     ELSE "portfolio report",
          calls |-> <<OracleCall("report_portfolio", <<>>,
                                 [company_context |-> state.company_context,
                                  investors |-> state.investor_contexts.keys],
                                 response)>>]

\* Node 7
_generate_retrospective_node(state, response) ==
    LET st1 == [state EXCEPT !.current_step = "generating_retrospective"]
    IN  The({ [state |-> [st1 EXCEPT !.retrospective_report = made.report],
               raised |-> FALSE,
               calls |-> made.calls]
                : made \in {_generate_comprehensive_report(st1, response)} })

\* -------------------------------------------------------------- workflow

VARIABLES
    source,        \* the mail source behind the gmail_client of the run
    state,         \* the FundraisingState the workflow passes from node to node
    pc,            \* the node the workflow runs next, "END", or where the run ended
    steps,         \* the nodes entered so far, in order
    oracle_calls,  \* the oracle calls made so far, in order
    state2,        \* the FundraisingState of a second run over the same source
    differ,        \* the investor the oracle answers differently in the second run
    engine,        \* the attributes of the engine that calls of it assign
    runs           \* the calls of run_intelligence_analysis that overlap on the engine

vars == <<source, state, pc, steps, oracle_calls, state2, differ, engine, runs>>

\* the engine after __init__: no gmail client stored yet
NewEngine == [_gmail_client |-> None]

\* set_entry_point and add_edge of _build_workflow
EntryPoint == "fetch_emails"

\* the edge out of fetch_emails drawn past group_threads
Edges_skipGroup ==
    [fetch_emails |-> "analyze_conversations",
     group_threads |-> "analyze_conversations",
     analyze_conversations |-> "extract_timing_patterns",
     extract_timing_patterns |-> "analyze_strategy_effectiveness",
     analyze_strategy_effectiveness |-> "generate_campaign_strategies",
     generate_campaign_strategies |-> "generate_retrospective",
     generate_retrospective |-> "END"]

Edges ==
    [fetch_emails |-> "group_threads",
     group_threads |-> "analyze_conversations",
     analyze_conversations |-> "extract_timing_patterns",
     extract_timing_patterns |-> "analyze_strategy_effectiveness",
     analyze_strategy_effectiveness |-> "generate_campaign_strategies",
     generate_campaign_strategies |-> "generate_retrospective",
     generate_retrospective |-> "END"]

\* run_intelligence_analysis up to the call of workflow.ainvoke
Init ==
    /\ source \in MailSources
    /\ state = FundraisingState
    /\ pc = EntryPoint
    /\ steps = <<>>
    /\ oracle_calls = <<>>
    /\ state2 = FundraisingState
    /\ differ = <<>>
    /\ engine = NewEngine
    /\ runs = <<>>

\* the workflow, at node `node`, takes the state the node returns and
\* follows the node's edge, or ends with the exception that left the node
RunNode(node, result, calls) ==
    /\ state' = result.state
    /\ pc' = IF result.raised THEN "raised" ELSE Edges[node]
    /\ steps' = Append(steps, node)
    /\ oracle_calls' = oracle_calls \o calls
    /\ UNCHANGED <<source, state2, differ, engine, runs>>

FetchEmails ==
    /\ pc = "fetch_emails"
    /\ \E result \in {_fetch_emails_node(state, source)} :
           RunNode("fetch_emails", result, <<>>)

GroupThreads ==
    /\ pc = "group_threads"
    /\ \E result \in {_group_threads_node(state)} :
           RunNode("group_threads", result, <<>>)

AnalyzeConversations ==
    /\ pc = "analyze_conversations"
    /\ \E responses \in [Keys(state.thread_groups) -> AnalysisResponses] :
           \E result \in {_analyze_conversations_node(state, responses)} :
               RunNode("analyze_conversations", result, result.calls)

\* the weekdays the node can pick, for every investor
DayPickChoices(st) ==
    {day_picks \in [Keys(st.thread_groups) -> Range(Weekdays)] :
        \A k \in Keys(st.thread_groups) :
            day_picks[k] \in DayPicks(st.thread_groups.at[k], st.user_email)}

ExtractTimingPatterns ==
    /\ pc = "extract_timing_patterns"
    /\ \E day_picks \in DayPickChoices(state) :
           \E result \in {_extract_timing_patterns_node(state, day_picks)} :
               RunNode("extract_timing_patterns", result, <<>>)

AnalyzeStrategyEffectiveness ==
    /\ pc = "analyze_strategy_effectiveness"
    /\ \E result \in {_analyze_strategy_effectiveness_node(state)} :
           RunNode("analyze_strategy_effectiveness", result, <<>>)

\* the strategy prompt of an investor without response time is never sent
NotAsked(contexts, responses) ==
    \A k \in Keys(contexts) :
        contexts.at[k].response_time_avg = None => responses[k] = OracleRaises

\* the oracle answers only the investors the node asks it about
GenerateCampaignStrategies ==
    /\ pc = "generate_campaign_strategies"
    /\ \E responses \in [Keys(state.investor_contexts) -> StrategyResponses] :
           /\ NotAsked(state.investor_contexts, responses)
           /\ \E result \in {_generate_campaign_strategies_node(state, responses)} :
                  RunNode("generate_campaign_strategies", result, result.calls)

GenerateRetrospective ==
    /\ pc = "generate_retrospective"
    /\ \E response \in ReportResponses :
           \E result \in {_generate_retrospective_node(state, response)} :
               RunNode("generate_retrospective", result, result.calls)

\* ainvoke returns and run_intelligence_analysis hands final_state back
Return ==
    /\ pc = "END"
    /\ pc' = "returned"
    /\ UNCHANGED <<source, state, steps, oracle_calls, state2, differ, engine, runs>>

Next ==
    \/ FetchEmails
    \/ GroupThreads
    \/ AnalyzeConversations
    \/ ExtractTimingPatterns
    \/ AnalyzeStrategyEffectiveness
    \/ GenerateCampaignStrategies
    \/ GenerateRetrospective
    \/ Return

Spec == Init /\ [][Next]_vars

\* the event loop runs the awaited workflow on: a run that has a next step
\* takes it
FairSpec == Spec /\ WF_vars(Next)

\* ------------------------------------------------------------- two runs

\* most messages of the mailbox the two runs read
PairMaxMsgs == 4

\* the mailbox of the two runs: a sent and a received message for each of
\* two investors
PairMessages ==
    { RawMessage("ok", TRUE, HdrUser, HdrANamed, <<"o">>, <<"o">>, DateAt(EarlyT)),
      RawMessage("ok", TRUE, HdrANamed, HdrUser, <<"o">>, HdrB \o <<" ">> \o HdrAB, DateAt(LateT)),
      RawMessage("ok", TRUE, HdrUserNamed, HdrB, HdrA, <<>>, DateAt(EarlyT)),
      RawMessage("ok", TRUE, HdrB, HdrUser, <<"o">>, <<"o">>, DateAt(LateT)) }

\* the search lists each message once, in any order
PairSources ==
    [search : {"ok"},
     messages : {m \in SeqsUpTo(PairMessages, PairMaxMsgs) :
                    \A i, j \in 1..Len(m) : m[i] = m[j] => i = j}]

\* two calls of run_intelligence_analysis on the same mailbox
PairInit ==
    /\ source \in PairSources
    /\ state = FundraisingState
    /\ state2 = FundraisingState
    /\ differ \in {_extract_email(HdrA), _extract_email(HdrB)}
    /\ engine = NewEngine
    /\ runs = <<>>
    /\ pc = EntryPoint
    /\ steps = <<>>
    /\ oracle_calls = <<>>

\* both workflows run node `node`, each on its own state; the calls kept are
\* those of the first
PairRunNode(node, result, result2, calls) ==
    /\ state' = result.state
    /\ state2' = result2.state
    /\ pc' = IF result.raised \/ result2.raised THEN "raised" ELSE Edges[node]
    /\ steps' = Append(steps, node)
    /\ oracle_calls' = oracle_calls \o calls
    /\ UNCHANGED <<source, differ, engine, runs>>

\* the oracle answers the two runs alike about every investor but differ,
\* and in the first run its answer about differ is a success
AnswersDifferOnly(responses, responses2) ==
    /\ \A k \in (DOMAIN responses \cap DOMAIN responses2) \ {differ} :
           responses[k] = responses2[k]
    /\ differ \in DOMAIN responses => ~OracleFailed(responses[differ])

PairFetchEmails ==
    /\ pc = "fetch_emails"
    /\ \E result \in {_fetch_emails_node(state, source)},
          result2 \in {_fetch_emails_node(state2, source)} :
           PairRunNode("fetch_emails", result, result2, <<>>)

PairGroupThreads ==
    /\ pc = "group_threads"
    /\ \E result \in {_group_threads_node(state)},
          result2 \in {_group_threads_node(state2)} :
           PairRunNode("group_threads", result, result2, <<>>)

PairAnalyzeConversations ==
    /\ pc = "analyze_conversations"
    /\ \E responses \in [Keys(state.thread_groups) -> AnalysisResponses],
          responses2 \in [Keys(state2.thread_groups) -> AnalysisResponses] :
           /\ AnswersDifferOnly(responses, responses2)
           /\ \E result \in {_analyze_conversations_node(state, responses)},
                 result2 \in {_analyze_conversations_node(state2, responses2)} :
                  PairRunNode("analyze_conversations", result, result2, result.calls)

PairExtractTimingPatterns ==
    /\ pc = "extract_timing_patterns"
    /\ \E day_picks \in DayPickChoices(state) :
           \E result \in {_extract_timing_patterns_node(state, day_picks)},
              result2 \in {_extract_timing_patterns_node(state2, day_picks)} :
               PairRunNode("extract_timing_patterns", result, result2, <<>>)

PairAnalyzeStrategyEffectiveness ==
    /\ pc = "analyze_strategy_effectiveness"
    /\ \E result \in {_analyze_strategy_effectiveness_node(state)},
          result2 \in {_analyze_strategy_effectiveness_node(state2)} :
           PairRunNode("analyze_strategy_effectiveness", result, result2, <<>>)

PairGenerateCampaignStrategies ==
    /\ pc = "generate_campaign_strategies"
    /\ \E responses \in [Keys(state.investor_contexts) -> StrategyResponses],
          responses2 \in [Keys(state2.investor_contexts) -> StrategyResponses] :
           /\ NotAsked(state.investor_contexts, responses)
           /\ NotAsked(state2.investor_contexts, responses2)
           /\ AnswersDifferOnly(responses, responses2)
           /\ \E result \in {_generate_campaign_strategies_node(state, responses)},
                 result2 \in {_generate_campaign_strategies_node(state2, responses2)} :
                  PairRunNode("generate_campaign_strategies", result, result2, result.calls)

PairGenerateRetrospective ==
    /\ pc = "generate_retrospective"
    /\ \E response \in ReportResponses :
           \E result \in {_generate_retrospective_node(state, response)},
              result2 \in {_generate_retrospective_node(state2, response)} :
               PairRunNode("generate_retrospective", result, result2, result.calls)

PairReturn ==
    /\ pc = "END"
    /\ pc' = "returned"
    /\ UNCHANGED <<source, state, steps, oracle_calls, state2, differ, engine, runs>>

PairNext ==
    \/ PairFetchEmails
    \/ PairGroupThreads
    \/ PairAnalyzeConversations
    \/ PairExtractTimingPatterns
    \/ PairAnalyzeStrategyEffectiveness
    \/ PairGenerateCampaignStrategies
    \/ PairGenerateRetrospective
    \/ PairReturn

PairSpec == PairInit /\ [][PairNext]_vars

\* ---------------------------------------------------------------- claims

Failed(call) == OracleFailed(call.response)

CallsOfKind(kinds) == {i \in 1..Len(oracle_calls) : oracle_calls[i].kind \in kinds}

AfterNode(node) == \E i \in 1..Len(steps) : steps[i] = node

\* C1: under every mail-source, parse and oracle failure the run reaches the
\* end of the workflow and the state is handed back to the caller
C1_RunReturns == <>(pc = "returned")

\* a returned run in which a message failed to parse and the analysis, the
\* strategy and the report call all failed
C1_Witness ==
    /\ pc = "returned"
    /\ \E i \in 1..Len(state.errors) : state.errors[i].what = "Failed to parse email metadata"
    /\ \A kind \in {"analysis", "strategy"} : CallsOfKind({kind}) # {}
    /\ \A i \in 1..Len(oracle_calls) : Failed(oracle_calls[i])

StageOrder ==
    <<"fetch_emails", "group_threads", "analyze_conversations", "extract_timing_patterns",
      "analyze_strategy_effectiveness", "generate_campaign_strategies",
      "generate_retrospective">>

\* C2: the nodes are entered in the one fixed order, each once, none skipped
\* or repeated, whatever errors the state holds; the run ends after the last
C2_StagesInOrder ==
    /\ Len(steps) <= Len(StageOrder)
    /\ steps = SubSeq(StageOrder, 1, Len(steps))
    /\ IF Len(steps) < Len(StageOrder)
       THEN pc = StageOrder[Len(steps) + 1]
       ELSE pc \in {"END", "returned"}
    /\ (steps # <<>> /\ Len(steps) < Len(StageOrder)) =>
           state.current_step \in {"fetching_emails", "grouping_threads",
               "analyzing_conversations", "extracting_timing_patterns",
               "analyzing_strategy_effectiveness", "generating_campaign_strategies"}

\* a run that went through all seven nodes with errors recorded on the way
C2_Witness ==
    /\ pc = "returned"
    /\ steps = StageOrder
    /\ Len(state.errors) >= 2

\* no message of the source failed to be fetched or parsed
NoIngestionFailure ==
    /\ source.search = "ok"
    /\ \A i \in 1..Len(source.messages) :
           source.messages[i].get = "ok" /\ source.messages[i].has_id

FailedCounterpartyCalls ==
    {i \in CallsOfKind({"analysis", "strategy"}) : Failed(oracle_calls[i])}

\* C3: at the end of a run without ingestion failure the error list has one
\* entry per failed analysis or strategy call, naming its counterparty, and
\* is empty when no call failed
C3_ErrorPerFailedCall ==
    (pc = "returned" /\ NoIngestionFailure) =>
        /\ Len(state.errors) = Cardinality(FailedCounterpartyCalls)
        /\ \A i \in FailedCounterpartyCalls :
               \E j \in 1..Len(state.errors) : state.errors[j].who = oracle_calls[i].who

\* C4: a counterparty whose analysis call failed still has a context: stage
\* "unknown", empty lists, and the sent and received counts of its group
C4_DefaultContextOnFailure ==
    \A i \in CallsOfKind({"analysis"}) :
        Failed(oracle_calls[i]) =>
            LET who == oracle_calls[i].who
                emails == state.thread_groups.at[who]
                outbound == {n \in 1..Len(emails) : emails[n].is_outbound}
            IN  /\ who \in Keys(state.investor_contexts)
                /\ LET context == state.investor_contexts.at[who]
                   IN  /\ context.relationship_stage = "unknown"
                       /\ context.key_interests = <<>>
                       /\ context.objections_raised = <<>>
                       /\ context.questions_asked = <<>>
                       /\ context.materials_shared = <<>>
                       /\ context.total_emails_sent = Cardinality(outbound)
                       /\ context.total_replies_received =
                              Len(emails) - Cardinality(outbound)

\* two kinds of failure in one run, one of them for a group that holds a
\* sent and a received message
C4_Witness ==
    /\ \E i, j \in CallsOfKind({"analysis"}) :
           /\ Failed(oracle_calls[i]) /\ Failed(oracle_calls[j])
           /\ oracle_calls[i].response # oracle_calls[j].response
    /\ \E i \in CallsOfKind({"analysis"}) :
           /\ Failed(oracle_calls[i])
           /\ oracle_calls[i].who \in Keys(state.investor_contexts)
           /\ state.investor_contexts.at[oracle_calls[i].who].total_emails_sent >= 1
           /\ state.investor_contexts.at[oracle_calls[i].who].total_replies_received >= 1

\* what a run holds for investor k: its context, its timing pattern and its
\* strategies
ResultsFor(st, k) ==
    [context |-> IF k \in Keys(st.investor_contexts) THEN st.investor_contexts.at[k] ELSE None,
     timing |-> IF k \in Keys(st.timing_patterns) THEN st.timing_patterns.at[k] ELSE None,
     strategies |-> {st.campaign_strategies[i] : i \in
                        {j \in 1..Len(st.campaign_strategies) :
                            st.campaign_strategies[j].investor_email = k}}]

\* C5: two runs on the same mailbox whose oracle calls differ for one
\* investor only hold the same context, timing pattern and strategy for
\* every other investor
C5_FailureIsolated ==
    \A k \in (Keys(state.thread_groups) \cup Keys(state2.thread_groups)) \ {differ} :
        ResultsFor(state, k) = ResultsFor(state2, k)

\* both runs returned; the analysis and the strategy call for differ failed
\* in the second run only, and another investor has a strategy
C5_Witness ==
    /\ pc = "returned"
    /\ differ \in Keys(state.investor_contexts)
    /\ state.investor_contexts.at[differ].relationship_stage = "engaged"
    /\ state2.investor_contexts.at[differ].relationship_stage = "unknown"
    /\ ResultsFor(state, differ).strategies # {}
    /\ ResultsFor(state2, differ).strategies = {}
    /\ \E k \in Keys(state.thread_groups) \ {differ} :
           /\ ResultsFor(state, k).strategies # {}
           /\ ResultsFor(state, k).context.relationship_stage = "engaged"

\* the texts of a prompt that are built from mail data
PromptTexts(call) ==
    IF call.kind = "analysis"
    THEN {call.prompt.investor_email}
         \cup UNION { {part.from, part.to, part.subject, part.content} :
                          part \in Range(call.prompt.conversation_text) }
    ELSE {call.prompt.email}

\* C6: no prompt of the conversation analysis or of the strategy generation
\* holds an email address; each is replaced by its placeholder
C6_NoRawAddressInPrompt ==
    \A i \in CallsOfKind({"analysis", "strategy"}) :
        \A text \in PromptTexts(oracle_calls[i]) : FindAllEmails(text) = <<>>

\* text with every match of email_pattern, from position i on, given as the
\* placeholder of the address matched
RECURSIVE PlaceholdersFrom(_, _)
PlaceholdersFrom(text, i) ==
    IF i > Len(text) THEN <<>>
    ELSE IF EmailMatchEnd(text, i) # 0
         THEN <<Placeholder(SubSeq(text, i, EmailMatchEnd(text, i)))>>
              \o PlaceholdersFrom(text, EmailMatchEnd(text, i) + 1)
         ELSE <<text[i]>> \o PlaceholdersFrom(text, i + 1)

\* C7: wherever an address stands in a message given to the oracle, what
\* stands for it in the prompt is the placeholder of that address, the same
\* in every message and conversation, and that of no other address
C7_PlaceholderOfAddressAlone ==
    \A i \in CallsOfKind({"analysis"}) :
        LET emails == state.thread_groups.at[oracle_calls[i].who]
            parts == oracle_calls[i].prompt.conversation_text
        IN  \A n \in 1..Len(parts) :
                /\ parts[n].from = PlaceholdersFrom(emails[n].sender, 1)
                /\ parts[n].to = PlaceholdersFrom(emails[n].recipient, 1)
                /\ parts[n].subject = PlaceholdersFrom(emails[n].subject, 1)
                /\ emails[n].body_content # <<>> =>
                       parts[n].content = PlaceholdersFrom(emails[n].body_content, 1)

\* C8: no key of thread_groups is the user's own address in any case, and so
\* no context, timing pattern or strategy is made for the user
C8_UserNeverCounterparty ==
    /\ \A k \in Keys(state.thread_groups) \cup Keys(state.investor_contexts)
                    \cup Keys(state.timing_patterns) :
           Lower(k) # Lower(state.user_email)
    /\ \A i \in 1..Len(state.campaign_strategies) :
           Lower(state.campaign_strategies[i].investor_email) # Lower(state.user_email)

\* a run that grouped a mailbox holding mail of the user to the user
C8_Witness ==
    /\ AfterNode("generate_campaign_strategies")
    /\ state.thread_groups.keys # <<>>
    /\ \E i \in 1..Len(state.email_metadata) :
           LET email == state.email_metadata[i]
           IN  /\ email.is_outbound
               /\ Contains(Lower(state.user_email), Lower(email.recipient))

\* C9: once grouped, the emails of every group are in non-decreasing
\* timestamp order
C9_GroupsSorted ==
    \A k \in Keys(state.thread_groups) :
        LET emails == state.thread_groups.at[k]
        IN  \A i, j \in 1..Len(emails) :
                i < j => /\ emails[i].timestamp.aware = emails[j].timestamp.aware
                         /\ emails[i].timestamp.t <= emails[j].timestamp.t

\* a group whose later email came first in the mailbox
C9_Witness ==
    \E k \in Keys(state.thread_groups) :
        LET emails == state.thread_groups.at[k]
        IN  \E i, j \in 1..Len(emails) :
                /\ i < j
                /\ emails[i].message_id > emails[j].message_id
                /\ emails[i].timestamp.t < emails[j].timestamp.t

\* C10: once grouped, every normalized message with a counterparty is in
\* exactly one group, the one of its counterparty
C10_EveryMessageGrouped ==
    AfterNode("group_threads") =>
        \A n \in 1..Len(state.email_metadata) :
            LET email == state.email_metadata[n]
                investor_email == InvestorEmailOf(email, state.user_email)
                Holds(k) == \E i \in 1..Len(state.thread_groups.at[k]) :
                                state.thread_groups.at[k][i] = email
            IN  (investor_email # <<>> /\ Lower(investor_email) # Lower(state.user_email))
                    => /\ investor_email \in Keys(state.thread_groups)
                       /\ \A k \in Keys(state.thread_groups) :
                              Holds(k) <=> k = investor_email

\* a rate num/den that lies in [0, 1]
InUnitInterval(rate) == 0 <= rate.num /\ rate.num <= rate.den /\ rate.den > 0

\* C11: every reply rate reported lies in [0, 1]: the response rate of every
\* timing pattern, and the overall reply rate of the effectiveness metrics
C11_ReplyRatesInUnitInterval ==
    /\ \A k \in Keys(state.timing_patterns) :
           InUnitInterval(state.timing_patterns.at[k].response_rate)
    /\ AfterNode("analyze_strategy_effectiveness") =>
           InUnitInterval(state.strategy_effectiveness.overall_reply_rate)

\* the emails of a group the user sent
Outbound(emails) == {i \in 1..Len(emails) : emails[i].is_outbound}

\* C12: the reply rate reported for an investor is 0 exactly when the user
\* sent none of the emails of the investor's group
C12_ZeroRateIffNothingSent ==
    \A k \in Keys(state.timing_patterns) :
        state.timing_patterns.at[k].response_rate.num = 0
            <=> Outbound(state.thread_groups.at[k]) = {}

\* the places of a group where an email the user sent is immediately followed
\* by one the investor sent
AdjacentPairs(emails) ==
    {i \in 1..(Len(emails) - 1) : emails[i].is_outbound /\ ~emails[i + 1].is_outbound}

\* the hours from the email at place i to the next one, summed over a set of
\* places
RECURSIVE ElapsedSum(_, _)
ElapsedSum(emails, places) ==
    IF places = {} THEN 0
    ELSE LET i == CHOOSE p \in places : TRUE
         IN  (emails[i + 1].timestamp.t - emails[i].timestamp.t)
                 + ElapsedSum(emails, places \ {i})

\* an email sent at 09:00 and its answer received at 11:00
NineThenEleven(emails) ==
    /\ Len(emails) = 2
    /\ emails[1].is_outbound /\ emails[1].timestamp.t = 9
    /\ ~emails[2].is_outbound /\ emails[2].timestamp.t = 11

\* C13: the average response hours of a timing pattern are the mean of the
\* hours elapsed over exactly the adjacent sent-then-received pairs of the
\* sorted group, and 24 when there is no such pair; a group of one email sent
\* at 09:00 and one received at 11:00 has average 2, one reply and rate 1/2
C13_AverageOverAdjacentPairs ==
    \A k \in Keys(state.timing_patterns) :
        LET emails == state.thread_groups.at[k]
            pattern == state.timing_patterns.at[k]
            pairs == AdjacentPairs(emails)
        IN  /\ pairs = {} => pattern.avg_response_hours = [num |-> 24, den |-> 1]
            /\ pairs # {} => pattern.avg_response_hours =
                                 [num |-> ElapsedSum(emails, pairs), den |-> Cardinality(pairs)]
            /\ NineThenEleven(emails) =>
                   /\ pattern.avg_response_hours = [num |-> 2, den |-> 1]
                   /\ pattern.total_replies = 1
                   /\ pattern.response_rate = [num |-> 1, den |-> 2]

\* the timing pattern of a group of one email sent at 09:00 and one received
\* at 11:00 has been computed
C13_Witness ==
    \E k \in Keys(state.timing_patterns) :
        /\ NineThenEleven(state.thread_groups.at[k])
        /\ state.timing_patterns.at[k].avg_response_hours.den = 1

\* ------------------------------------------------- timing node, applied

\* most emails of a group handed to the timing node
TimingMaxLen == 2

\* the emails the groups are made of: sent and received ones
TimingEmails == {EmailMetadata(m @@ [id |-> 1], UserEmail) : m \in PairMessages}

\* the thread_groups handed to the node: one or two investors, each with a
\* group of emails in any order, the empty group included
TimingGroups ==
    LET groups == SeqsUpTo(TimingEmails, TimingMaxLen)
        a == _extract_email(HdrA)
        b == _extract_email(HdrB)
    IN  {DictSet(EmptyDict, a, g) : g \in groups}
            \cup {DictSet(DictSet(EmptyDict, a, g), b, h) : g \in groups, h \in groups}

\* the state the workflow hands to extract_timing_patterns
TimingInit ==
    /\ source \in [search : {"ok"}, messages : {<<>>}]
    /\ state \in {[FundraisingState EXCEPT !.thread_groups = g,
                                           !.current_step = "analyzing_conversations"]
                     : g \in TimingGroups}
    /\ pc = "extract_timing_patterns"
    /\ steps = <<>>
    /\ oracle_calls = <<>>
    /\ state2 = FundraisingState
    /\ differ = <<>>
    /\ engine = NewEngine
    /\ runs = <<>>

TimingNext == ExtractTimingPatterns

TimingSpec == TimingInit /\ [][TimingNext]_vars

\* the timing pattern of an investor without replies and without response
\* times
DefaultPattern ==
    [preferred_hour |-> 10, preferred_day |-> "tuesday",
     avg_response_hours |-> [num |-> 24, den |-> 1],
     total_replies |-> 0, response_rate |-> [num |-> 0, den |-> 1]]

\* C14: for an investor whose group is empty the timing node stores the
\* default pattern (hour 10, tuesday, 24 hours, no reply, rate 0); it neither
\* raises nor records an error about the investor
C14_EmptyGroupDefaults ==
    AfterNode("extract_timing_patterns") =>
        /\ pc # "raised"
        /\ \A k \in Keys(state.thread_groups) :
               state.thread_groups.at[k] = <<>> =>
                   /\ k \in Keys(state.timing_patterns)
                   /\ state.timing_patterns.at[k] = DefaultPattern
                   /\ \A i \in 1..Len(state.errors) : state.errors[i].who # k

\* the node has run over an empty group and a group with a reply
C14_Witness ==
    /\ AfterNode("extract_timing_patterns")
    /\ \E k \in Keys(state.thread_groups) : state.thread_groups.at[k] = <<>>
    /\ \E k \in Keys(state.timing_patterns) : state.timing_patterns.at[k].total_replies > 0

\* the strategies stored for investor k
StrategiesFor(k) ==
    {i \in 1..Len(state.campaign_strategies) :
        state.campaign_strategies[i].investor_email = k}

\* C15: once the strategies are generated, every investor with a context has
\* exactly one strategy in the list unless a strategy call of the oracle for
\* it failed, whatever the fields of the context (a response time average of
\* None included)
C15_StrategyUnlessOracleFails ==
    AfterNode("generate_campaign_strategies") =>
        \A k \in Keys(state.investor_contexts) :
            (\A i \in CallsOfKind({"strategy"}) :
                 oracle_calls[i].who = k => ~Failed(oracle_calls[i]))
                => Cardinality(StrategiesFor(k)) = 1

\* ---------------------------------------------- oracle free in its JSON

\* answers to the conversation analysis prompt with a stage and a trend of
\* the oracle's own wording
OpenAnalysisResponses ==
    { OracleRaises,
      OracleJson([relationship_stage |-> "warm", sentiment_trend |-> "negative"]),
      OracleJson([relationship_stage |-> "hot", sentiment_trend |-> "mixed"]) }

\* answers to the strategy prompt: objects with a score of 15 out of 10, a
\* rate of 2.5, an empty channel list, and the object {}
OpenStrategyResponses ==
    { OracleRaises,
      OracleJson(<<>>),
      OracleJson([personalization_score |-> 15]),
      OracleJson([expected_response_rate |-> [num |-> 5, den |-> 2]]),
      OracleJson([channel_sequence |-> <<>>]) }

OpenAnalyzeConversations ==
    /\ pc = "analyze_conversations"
    /\ \E responses \in [Keys(state.thread_groups) -> OpenAnalysisResponses] :
           \E result \in {_analyze_conversations_node(state, responses)} :
               RunNode("analyze_conversations", result, result.calls)

OpenGenerateCampaignStrategies ==
    /\ pc = "generate_campaign_strategies"
    /\ \E responses \in [Keys(state.investor_contexts) -> OpenStrategyResponses] :
           /\ NotAsked(state.investor_contexts, responses)
           /\ \E result \in {_generate_campaign_strategies_node(state, responses)} :
                  RunNode("generate_campaign_strategies", result, result.calls)

\* a run over the mailbox of two investors
OpenInit ==
    /\ source \in PairSources
    /\ state = FundraisingState
    /\ pc = EntryPoint
    /\ steps = <<>>
    /\ oracle_calls = <<>>
    /\ state2 = FundraisingState
    /\ differ = <<>>
    /\ engine = NewEngine
    /\ runs = <<>>

OpenNext ==
    \/ FetchEmails
    \/ GroupThreads
    \/ OpenAnalyzeConversations
    \/ ExtractTimingPatterns
    \/ AnalyzeStrategyEffectiveness
    \/ OpenGenerateCampaignStrategies
    \/ GenerateRetrospective
    \/ Return

OpenSpec == OpenInit /\ [][OpenNext]_vars

\* C16: every strategy stored has a confidence score in [0, 1], an expected
\* response rate in [0, 1] and a channel sequence that is not empty, whatever
\* JSON object the oracle returned
C16_StrategyFieldsInRange ==
    \A i \in 1..Len(state.campaign_strategies) :
        LET strategy == state.campaign_strategies[i]
        IN  /\ InUnitInterval(strategy.confidence_score)
            /\ InUnitInterval(strategy.expected_response_rate)
            /\ strategy.channel_sequence # <<>>

RelationshipStages ==
    {"cold", "warm", "engaged", "interested", "declined", "deferred", "closed", "unknown"}

SentimentTrends == {"positive", "neutral", "negative"}

\* C17: the relationship stage of every investor context is one of cold,
\* warm, engaged, interested, declined, deferred, closed, unknown and its
\* sentiment trend one of positive, neutral, negative, whatever text the
\* oracle returned
C17_StageAndTrendEnumerated ==
    \A k \in Keys(state.investor_contexts) :
        /\ state.investor_contexts.at[k].relationship_stage \in RelationshipStages
        /\ state.investor_contexts.at[k].sentiment_trend \in SentimentTrends

\* the report calls of the oracle
ReportCalls == CallsOfKind({"report_single", "report_portfolio"})

\* the i-th call of the oracle raised
ReportFailed(i) == oracle_calls[i].response.kind = "raise"

\* C18: the report is written in the branch the number of investor contexts
\* alone selects: the single-investor report for exactly one, the portfolio
\* report for more than one; in either branch a failed oracle call leaves the
\* branch's report stub that names the error as the retrospective text
C18_ReportBranchByCount ==
    AfterNode("generate_retrospective") =>
        LET n == Len(state.investor_contexts.keys)
        IN  /\ n >= 1 => Cardinality(ReportCalls) = 1
            /\ \A i \in ReportCalls :
                   /\ n = 1 => oracle_calls[i].kind = "report_single"
                   /\ n > 1 => oracle_calls[i].kind = "report_portfolio"
                   /\ (n = 1 /\ ReportFailed(i)) =>
                          state.retrospective_report =
                              "INVESTOR RELATIONSHIP REPORT: Error generating report"
                   /\ (n > 1 /\ ReportFailed(i)) =>
                          state.retrospective_report =
                              "# Fundraising Retrospective Report: Error generating report"
                   /\ ~ReportFailed(i) =>
                          state.retrospective_report \in
                              {"single investor report", "portfolio report"}

\* the single-investor report failed with strategies at hand
C18_Witness ==
    /\ AfterNode("generate_retrospective")
    /\ Len(state.investor_contexts.keys) = 1
    /\ state.campaign_strategies # <<>>
    /\ \E i \in ReportCalls : ReportFailed(i)

\* the portfolio report of two investors was written
C18_WitnessPortfolio ==
    /\ AfterNode("generate_retrospective")
    /\ Len(state.investor_contexts.keys) > 1
    /\ \E i \in ReportCalls : ~ReportFailed(i)

\* --------------------------------------- overlapping calls of one engine

\* the two mailboxes, and what a gmail client can hold of a mailbox: nothing,
\* one received message, or a search that reports an error
Mailboxes == {"mailbox1", "mailbox2"}

ConcSources ==
    { [search |-> "ok", messages |-> <<>>],
      [search |-> "ok",
       messages |-> <<RawMessage("ok", TRUE, HdrANamed, HdrUser, <<"o">>, <<"o">>, DateAt(LateT))>>],
      [search |-> "error", messages |-> <<>>] }

\* a gmail client: what search_emails and get_message return for a mailbox
GmailClients == [Mailboxes -> ConcSources]

\* a call run_intelligence_analysis(gmail_client, mailbox, ...) not yet begun;
\* state.mailbox is kept as the call's mailbox
Call(gmail_client, mailbox) ==
    [gmail_client |-> gmail_client, mailbox |-> mailbox, pc |-> "called", state |-> None]

\* two calls on one engine, each with its own client and mailbox
ConcInit ==
    /\ \E c1, c2 \in GmailClients :
           /\ c1 # c2
           /\ runs = <<Call(c1, "mailbox1"), Call(c2, "mailbox2")>>
    /\ engine = NewEngine
    /\ source \in [search : {"ok"}, messages : {<<>>}]
    /\ state = FundraisingState
    /\ pc = EntryPoint
    /\ steps = <<>>
    /\ oracle_calls = <<>>
    /\ state2 = FundraisingState
    /\ differ = <<>>

\* the oracle the overlapping calls share answers every prompt in full
Answer(responses) == CHOOSE response \in responses : response.kind \in {"json", "text"}

\* what node `node` returns for state st, with the mail source its gmail
\* client holds of the state's mailbox; the weekday picked among equals is
\* the same throughout the process
NodeResult(node, st, client_source) ==
    CASE node = "fetch_emails" -> _fetch_emails_node(st, client_source)
      [] node = "group_threads" -> _group_threads_node(st)
      [] node = "analyze_conversations" ->
             _analyze_conversations_node(st,
                 [k \in Keys(st.thread_groups) |-> Answer(AnalysisResponses)])
      [] node = "extract_timing_patterns" ->
             _extract_timing_patterns_node(st,
                 [k \in Keys(st.thread_groups) |->
                     CHOOSE day \in DayPicks(st.thread_groups.at[k], st.user_email) : TRUE])
      [] node = "analyze_strategy_effectiveness" -> _analyze_strategy_effectiveness_node(st)
      [] node = "generate_campaign_strategies" ->
             _generate_campaign_strategies_node(st,
                 [k \in Keys(st.investor_contexts) |-> Answer(StrategyResponses)])
      [] node = "generate_retrospective" ->
             _generate_retrospective_node(st, Answer(ReportResponses))

\* call r builds its initial state and stores its client on the engine, then
\* awaits the workflow
ConcStart(r) ==
    /\ runs[r].pc = "called"
    /\ engine' = [engine EXCEPT !._gmail_client = runs[r].gmail_client]
    /\ runs' = [runs EXCEPT ![r].state = FundraisingState, ![r].pc = EntryPoint]
    /\ UNCHANGED <<source, state, pc, steps, oracle_calls, state2, differ>>

\* the workflow of call r runs its next node; the node reads the client the
\* engine holds at that moment
ConcRunNode(r) ==
    /\ runs[r].pc \in DOMAIN Edges
    /\ \E result \in {NodeResult(runs[r].pc, runs[r].state,
                                 engine._gmail_client[runs[r].mailbox])} :
           runs' = [runs EXCEPT ![r].state = result.state,
                                ![r].pc = IF result.raised THEN "raised"
                                          ELSE Edges[runs[r].pc]]
    /\ UNCHANGED <<source, state, pc, steps, oracle_calls, state2, differ, engine>>

\* ainvoke of call r returns
ConcReturn(r) ==
    /\ runs[r].pc = "END"
    /\ runs' = [runs EXCEPT ![r].pc = "returned"]
    /\ UNCHANGED <<source, state, pc, steps, oracle_calls, state2, differ, engine>>

ConcNext ==
    \/ \E r \in DOMAIN runs : ConcStart(r)
    \/ \E r \in DOMAIN runs : ConcRunNode(r)
    \/ \E r \in DOMAIN runs : ConcReturn(r)

ConcSpec == ConcInit /\ [][ConcNext]_vars

\* the state the workflow ends with from node `node` on when no other call
\* touches the engine
RECURSIVE RunAloneFrom(_, _, _)
RunAloneFrom(node, st, client_source) ==
    IF node \notin DOMAIN Edges THEN st
    ELSE The({ IF result.raised THEN result.state
               ELSE RunAloneFrom(Edges[node], result.state, client_source)
                 : result \in {NodeResult(node, st, client_source)} })

\* what the client passed to call r holds of the call's mailbox
OwnSource(r) == runs[r].gmail_client[runs[r].mailbox]

\* C19: of two overlapping calls on one engine with different clients and
\* mailboxes, each fetches from the client passed to it, and each returns the
\* state it returns when run alone
C19_OverlappingRunsIndependent ==
    \A r \in DOMAIN runs :
        /\ runs[r].pc \notin {"called", "fetch_emails"} =>
               runs[r].state.raw_emails =
                   _fetch_emails_node(FundraisingState, OwnSource(r)).state.raw_emails
        /\ runs[r].pc = "returned" =>
               runs[r].state = RunAloneFrom(EntryPoint, FundraisingState, OwnSource(r))

\* the fields of the state each node computes
OutputFields ==
    [fetch_emails |-> {"raw_emails", "email_metadata"},
     group_threads |-> {"thread_groups"},
     analyze_conversations |-> {"investor_contexts"},
     extract_timing_patterns |-> {"timing_patterns"},
     analyze_strategy_effectiveness |-> {"strategy_effectiveness"},
     generate_campaign_strategies |-> {"campaign_strategies"},
     generate_retrospective |-> {"retrospective_report"}]

\* the list s begins the list t
IsPrefix(s, t) == Len(s) <= Len(t) /\ \A i \in 1..Len(s) : s[i] = t[i]

\* a step of the run leaves every field of the state as it was, but the
\* output fields of the node that ran, the step name and the errors, and it
\* keeps the errors recorded so far at the head of the error list
FrameStep ==
    /\ IsPrefix(state.errors, state'.errors)
    /\ \A field \in DOMAIN state :
           state'[field] # state[field] =>
               /\ pc \in DOMAIN Edges
               /\ field \in OutputFields[pc] \cup {"current_step", "errors"}

\* C20: the state accumulates: every stage changes only its own output
\* fields, the name of the current step and the error list; what an earlier
\* stage stored no later stage modifies, and the error list only grows
C20_StagesOnlyAdd == [][FrameStep]_vars

\* a returned run with an error from an early stage and the output of every
\* later stage
C20_Witness ==
    /\ pc = "returned"
    /\ state.errors # <<>>
    /\ state.investor_contexts.keys # <<>>
    /\ state.timing_patterns.keys # <<>>
    /\ state.campaign_strategies # <<>>
    /\ state.retrospective_report # ""

\* the parse errors recorded, and the normalized emails made of raw message n
ParseErrors ==
    {i \in 1..Len(state.errors) : state.errors[i].what = "Failed to parse email metadata"}

RecordsOf(n) ==
    {i \in 1..Len(state.email_metadata) :
        state.email_metadata[i].message_id = state.raw_emails[n].id}

\* C21: every raw message fetched yields either exactly one normalized email
\* and no error, or no email and exactly one error; a message that fails to
\* parse is in no group, and the messages after it are normalized all the same
C21_OneRecordOrOneError ==
    AfterNode("fetch_emails") =>
        /\ \A n \in 1..Len(state.raw_emails) :
               Cardinality(RecordsOf(n)) = IF state.raw_emails[n].has_id THEN 1 ELSE 0
        /\ Cardinality(ParseErrors) =
               Cardinality({n \in 1..Len(state.raw_emails) : ~state.raw_emails[n].has_id})
        /\ \A k \in Keys(state.thread_groups) :
               \A i \in 1..Len(state.thread_groups.at[k]) :
                   \E j \in 1..Len(state.email_metadata) :
                       state.thread_groups.at[k][i] = state.email_metadata[j]

\* a message that failed to parse came before one that was normalized and
\* grouped
C21_Witness ==
    /\ AfterNode("group_threads")
    /\ Keys(state.thread_groups) # {}
    /\ \E n \in 1..Len(state.raw_emails) :
           /\ ~state.raw_emails[n].has_id
           /\ \E i \in 1..Len(state.email_metadata) : state.email_metadata[i].message_id > n

\* a count of the contexts summed over a set of investors
RECURSIVE SumOver(_, _)
SumOver(keys, field) ==
    IF keys = {} THEN 0
    ELSE LET k == CHOOSE key \in keys : TRUE
         IN  state.investor_contexts.at[k][field] + SumOver(keys \ {k}, field)

\* the fraction num/den is the rate r
IsRate(r, num, den) == r.den > 0 /\ r.num * den = num * r.den

\* C22: the effectiveness metrics are those of the contexts: the overall
\* reply rate is replies received over emails sent across all investors (0
\* when nothing was sent), the active conversations are the contexts at
\* stage warm, engaged or interested, the positive sentiment rate is the
\* share of contexts with positive trend; without contexts every metric is
\* zero, and the node records no error
C22_EffectivenessOfContexts ==
    AfterNode("analyze_strategy_effectiveness") =>
        LET keys == Keys(state.investor_contexts)
            sent == SumOver(keys, "total_emails_sent")
            received == SumOver(keys, "total_replies_received")
            active == {k \in keys : state.investor_contexts.at[k].relationship_stage
                                        \in {"warm", "engaged", "interested"}}
            positive == {k \in keys :
                            state.investor_contexts.at[k].sentiment_trend = "positive"}
            metrics == state.strategy_effectiveness
        IN  /\ sent > 0 => IsRate(metrics.overall_reply_rate, received, sent)
            /\ sent = 0 => metrics.overall_reply_rate.num = 0
            /\ metrics.total_conversations = Cardinality(keys)
            /\ metrics.active_conversations = Cardinality(active)
            /\ keys # {} => IsRate(metrics.positive_sentiment_rate,
                                   Cardinality(positive), Cardinality(keys))
            /\ keys = {} => /\ metrics.positive_sentiment_rate.num = 0
                            /\ metrics.active_conversations = 0
                            /\ metrics.overall_reply_rate.num = 0
            /\ \A i \in 1..Len(state.errors) :
                   state.errors[i].what # "Strategy effectiveness analysis failed"

\* metrics over two contexts, one of them active, with a reply to an email
\* sent
C22_Witness ==
    /\ AfterNode("analyze_strategy_effectiveness")
    /\ state.strategy_effectiveness.total_conversations = 2
    /\ state.strategy_effectiveness.active_conversations = 1
    /\ state.strategy_effectiveness.overall_reply_rate.num > 0

\* metrics of a run without any context
C22_WitnessEmpty ==
    /\ AfterNode("analyze_strategy_effectiveness")
    /\ state.strategy_effectiveness.total_conversations = 0

\* the hours and weekdays of the emails received right after an email sent
PairHours(emails) == {HourOf(emails[i + 1].timestamp) : i \in AdjacentPairs(emails)}

PairDays(emails) == {DayOf(emails[i + 1].timestamp) : i \in AdjacentPairs(emails)}

\* C23: the preferred hour and day of a timing pattern are taken over the
\* emails received immediately after an email sent and over no other: there
\* are as many replies counted as such pairs, the preferred hour and day are
\* among theirs, and without such a pair they are the defaults
C23_SamplesAreAdjacentReplies ==
    \A k \in Keys(state.timing_patterns) :
        LET emails == state.thread_groups.at[k]
            pattern == state.timing_patterns.at[k]
        IN  /\ pattern.total_replies = Cardinality(AdjacentPairs(emails))
            /\ AdjacentPairs(emails) # {} =>
                   /\ pattern.preferred_hour \in PairHours(emails)
                   /\ pattern.preferred_day \in PairDays(emails)
            /\ AdjacentPairs(emails) = {} =>
                   /\ pattern.preferred_hour = 10
                   /\ pattern.preferred_day = "tuesday"

\* ------------------------------------------- a conversation over two days

\* the mailbox: an email sent on Monday at 09:00 and its answer at 11:00, an
\* email sent on Tuesday at 08:00 and its answer at 09:00
TieMessages ==
    { RawMessage("ok", TRUE, HdrUser, HdrANamed, <<"o">>, <<"o">>, DateAt(EarlyT)),
      RawMessage("ok", TRUE, HdrANamed, HdrUser, <<"o">>, <<"o">>, DateAt(LateT)),
      RawMessage("ok", TRUE, HdrUser, HdrANamed, <<"o">>, <<"o">>, DateAt(EarlyT + 23)),
      RawMessage("ok", TRUE, HdrANamed, HdrUser, <<"o">>, <<"o">>, DateAt(EarlyT + 24)) }

\* the search lists each message once, in any order
TieSources ==
    [search : {"ok"},
     messages : {m \in SeqsUpTo(TieMessages, Cardinality(TieMessages)) :
                    \A i, j \in 1..Len(m) : m[i] = m[j] => i = j}]

TieInit ==
    /\ source \in TieSources
    /\ state = FundraisingState
    /\ pc = EntryPoint
    /\ steps = <<>>
    /\ oracle_calls = <<>>
    /\ state2 = FundraisingState
    /\ differ = <<>>
    /\ engine = NewEngine
    /\ runs = <<>>

TieSpec == TieInit /\ [][Next]_vars

\* the first value of the list seq that is one of tied
FirstOf(seq, tied) ==
    seq[CHOOSE i \in 1..Len(seq) :
            seq[i] \in tied /\ \A j \in 1..(i - 1) : seq[j] \notin tied]

\* C24: when several hours or weekdays of an investor's replies share the
\* highest count, the preferred hour and day of the timing pattern are the
\* one of them that comes first among the replies in the order of time
C24_TieGoesToFirstReply ==
    \A k \in Keys(state.timing_patterns) :
        LET emails == state.thread_groups.at[k]
            hours == ReplyTimes(emails, state.user_email)
            days == ReplyDays(emails, state.user_email)
            pattern == state.timing_patterns.at[k]
        IN  hours # <<>> =>
                /\ pattern.preferred_hour = FirstOf(hours, Modes(hours))
                /\ pattern.preferred_day = FirstOf(days, Modes(days))

\* C25: for every investor context with at least one email sent and no reply
\* received, the strategy type determined is re_engagement, at every
\* relationship stage
C25_NoReplyMeansReEngagement ==
    \A k \in Keys(state.investor_contexts) :
        LET context == state.investor_contexts.at[k]
        IN  (context.total_emails_sent >= 1 /\ context.total_replies_received = 0)
                => _determine_strategy_type(context) = "re_engagement"

StrategyTypes == {"cold_outreach", "follow_up", "re_engagement", "milestone_update"}

\* C26: for every investor context at stage warm, engaged or interested the
\* strategy type determined is milestone_update, whatever was sent and
\* received, and for every context it is one of cold_outreach, follow_up,
\* re_engagement, milestone_update
C26_ActiveStageMeansMilestone ==
    \A k \in Keys(state.investor_contexts) :
        LET context == state.investor_contexts.at[k]
        IN  /\ _determine_strategy_type(context) \in StrategyTypes
            /\ context.relationship_stage \in {"warm", "engaged", "interested"}
                   => _determine_strategy_type(context) = "milestone_update"

\* C27: every strategy of an investor last contacted less than 7 days
\* before the strategy was generated recommends a time at most 7 days after
\* the last contact, whatever timing the oracle proposed
C27_TimingWithinWeekOfContact ==
    \A i \in 1..Len(state.campaign_strategies) :
        LET strategy == state.campaign_strategies[i]
            last == state.investor_contexts.at[strategy.investor_email].last_contact_date
        IN  (last # None /\ last.t <= NowT /\ NowT - last.t < 7 * 24)
                => strategy.recommended_timing <= last.t + 7 * 24

\* the search of the mail source failed: it reported an error, or raised
SearchFailed == source.search # "ok"

\* C28: when the mail search fails the run records exactly one error and no
\* node raises; a run whose search failed or that found no investor at all
\* still runs every node to the end, with no group, context, timing pattern
\* or strategy, and its report is the portfolio report, for which the oracle
\* is called
C28_EmptyRunStillReports ==
    /\ (SearchFailed /\ AfterNode("fetch_emails")) =>
           /\ Len(state.errors) = 1
           /\ state.errors[1].what \in {"Gmail search failed", "Email fetching failed"}
           /\ pc # "raised"
    /\ (pc = "returned" /\ (SearchFailed \/ Keys(state.thread_groups) = {})) =>
           /\ steps = StageOrder
           /\ Keys(state.thread_groups) = {}
           /\ Keys(state.investor_contexts) = {}
           /\ Keys(state.timing_patterns) = {}
           /\ state.campaign_strategies = <<>>
           /\ Cardinality(ReportCalls) = 1
           /\ \A i \in ReportCalls : oracle_calls[i].kind = "report_portfolio"

\* a run whose search raised has returned
C28_Witness ==
    /\ pc = "returned"
    /\ source.search = "raise"
    /\ ReportCalls # {}

\* C29: for every investor with a context and a timing pattern the counts
\* agree: emails sent plus replies received are the emails of the group, the
\* replies of the timing pattern are the replies of the context, and the
\* last contact is the latest timestamp of the group
C29_CountsAgree ==
    \A k \in Keys(state.investor_contexts) \cap Keys(state.timing_patterns) :
        LET emails == state.thread_groups.at[k]
            context == state.investor_contexts.at[k]
            pattern == state.timing_patterns.at[k]
        IN  /\ context.total_emails_sent + context.total_replies_received = Len(emails)
            /\ context.total_emails_sent = Cardinality(Outbound(emails))
            /\ pattern.total_replies = context.total_replies_received
            /\ \E i \in 1..Len(emails) : emails[i].timestamp = context.last_contact_date
            /\ \A i \in 1..Len(emails) :
                   emails[i].timestamp.t <= context.last_contact_date.t

\* a context and a timing pattern of a group that came out of the mailbox
\* latest first, with emails in both directions
C29_Witness ==
    \E k \in Keys(state.investor_contexts) \cap Keys(state.timing_patterns) :
        LET emails == state.thread_groups.at[k]
        IN  /\ Outbound(emails) # {}
            /\ Cardinality(Outbound(emails)) < Len(emails)
            /\ emails[1].message_id > emails[Len(emails)].message_id
            /\ emails[1].timestamp.t < emails[Len(emails)].timestamp.t

\* C30: the results are nested: the investors with a context and those with
\* a timing pattern are investors with a group, every context carries its
\* own key as email, every strategy is for an investor with a context, and
\* no investor has two strategies
C30_ResultsNested ==
    /\ Keys(state.investor_contexts) \subseteq Keys(state.thread_groups)
    /\ Keys(state.timing_patterns) \subseteq Keys(state.thread_groups)
    /\ \A k \in Keys(state.investor_contexts) : state.investor_contexts.at[k].email = k
    /\ \A i \in 1..Len(state.campaign_strategies) :
           state.campaign_strategies[i].investor_email \in Keys(state.investor_contexts)
    /\ \A i, j \in 1..Len(state.campaign_strategies) :
           state.campaign_strategies[i].investor_email
               = state.campaign_strategies[j].investor_email => i = j

\* two investors with a context, one of them with a strategy
C30_Witness ==
    /\ Cardinality(Keys(state.investor_contexts)) = 2
    /\ Len(state.campaign_strategies) = 1
    /\ Keys(state.timing_patterns) = Keys(state.thread_groups)

====
